---- MODULE Spec2Model ----
(***************************************************************************)
(* Model of the daily report pipeline of src/main.py: configuration, the   *)
(* prompt check, generate_report, create_html_page / get_history_links,    *)
(* the two file writes of main and send_email, with the Asia/Taipei wall   *)
(* clock advancing between the steps of a run and between runs.            *)
(*                                                                         *)
(* Strings that the code compares, sorts, slices or rewrites (file names,  *)
(* time stamps) are sequences of character codes.  Opaque texts (report    *)
(* bodies, exception texts) are sequences of string pieces.                *)
(***************************************************************************)
EXTENDS Integers, Sequences, FiniteSets, TLC

VARIABLES
    now,              \* local wall clock (UTC+8), in ticks
    runs,             \* number of processes started so far
    pc,               \* position of the current process
    exc,              \* the exception that ended the process, or "none"
    report_md,        \* does the prompt file report.md exist
    index_html,       \* content of index.html, or NoFile
    reports_dir,      \* does the directory reports/ exist
    reports,          \* reports/: file name -> content
    report_markdown,  \* main: local of line 315
    full_html,        \* main: local of line 322
    today_str,        \* main: local of line 336
    sender_email,     \* send_email: local of line 352
    sender_password,  \* send_email: local of line 353
    smtp,             \* how far the SMTP session of this run got
    outbox,           \* the message the relay accepted in this run, or NoMsg
    api_calls,        \* generate_content calls made by this run
    gen_raised,       \* text of the exception generate_content raised in this run, or ""
    console,          \* what this run printed (tags)
    index_at_start,   \* index.html as it was when the process started
    reports_at_start, \* reports/ as it was when the process started
    dir_at_start,     \* existence of reports/ when the process started
    wrote_index,      \* this run executed line 326
    wrote_archive,    \* this run executed line 340
    last_archive      \* name of the archive file written by the last run that wrote one

vars == <<now, runs, pc, exc, report_md, index_html, reports_dir, reports,
          report_markdown, full_html, today_str, sender_email, sender_password,
          smtp, outbox, api_calls, gen_raised, console, index_at_start,
          reports_at_start, dir_at_start, wrote_index, wrote_archive, last_archive>>

----------------------------------------------------------------------------
(* Bounds *)

\* ticks of the wall clock in one calendar day
TicksPerDay == 2
\* number of clock ticks a behaviour may take
MaxTicks == 2
\* number of processes a behaviour may start
MaxRuns == 3

\* the first calendar day: the day before the day number gets a second digit
FirstDay == 10 - 1
\* the clock starts at the last tick of the first day
FirstTick == FirstDay * TicksPerDay + (TicksPerDay - 1)
MaxNow == FirstTick + MaxTicks

----------------------------------------------------------------------------
(* Values *)

NoFile == [absent |-> TRUE]
NoPage == [unset |-> TRUE]
NoMsg == [nomsg |-> TRUE]
None == <<"None">>
EmptyStr == <<>>

\* ".html"
HtmlSuffix == <<46, 104, 116, 109, 108>>
\* "reports/"
ReportsPrefix == <<114, 101, 112, 111, 114, 116, 115, 47>>
\* ".gitkeep": a file of reports/ that is no archived page
StrayFile == <<46, 103, 105, 116, 107, 101, 101, 112>>
\* " (UTC+8)"
ZoneSuffix == <<32, 40, 85, 84, 67, 43, 56, 41>>

Texts == {"report"}
ExcTexts == {"503 unavailable"}
EnvValues == {None, EmptyStr, <<"set">>}

----------------------------------------------------------------------------
(* String helpers: Python's str operations on sequences of character codes *)

\* str.endswith
EndsWith(s, suf) ==
    /\ Len(s) >= Len(suf)
    /\ SubSeq(s, Len(s) - Len(suf) + 1, Len(s)) = suf

\* str.startswith at position i
MatchAt(s, pat, i) ==
    /\ i + Len(pat) - 1 <= Len(s)
    /\ SubSeq(s, i, i + Len(pat) - 1) = pat

RECURSIVE ReplaceFrom(_, _, _, _)
ReplaceFrom(s, pat, rep, i) ==
    IF i > Len(s) THEN <<>>
    ELSE IF MatchAt(s, pat, i)
         THEN rep \o ReplaceFrom(s, pat, rep, i + Len(pat))
         ELSE <<s[i]>> \o ReplaceFrom(s, pat, rep, i + 1)

\* str.replace(pat, rep): every occurrence, left to right
Replace(s, pat, rep) == ReplaceFrom(s, pat, rep, 1)

RECURSIVE StrLessFrom(_, _, _)
StrLessFrom(a, b, i) ==
    IF i > Len(a) THEN i <= Len(b)
    ELSE IF i > Len(b) THEN FALSE
    ELSE IF a[i] # b[i] THEN a[i] < b[i]
    ELSE StrLessFrom(a, b, i + 1)

\* str.__lt__: lexicographic by character code
StrLess(a, b) == StrLessFrom(a, b, 1)

RECURSIVE InsertDesc(_, _)
InsertDesc(x, s) ==
    IF s = <<>> THEN <<x>>
    ELSE IF StrLess(Head(s), x) THEN <<x>> \o s
    ELSE <<Head(s)>> \o InsertDesc(x, Tail(s))

RECURSIVE SortedReverse(_)
\* sorted(names, reverse=True)
SortedReverse(names) ==
    IF names = <<>> THEN <<>>
    ELSE InsertDesc(Head(names), SortedReverse(Tail(names)))

\* the enumerations os.listdir may return for a set of names
Listings(S) ==
    {f \in [1..Cardinality(S) -> S] : \A i, j \in DOMAIN f : i # j => f[i] # f[j]}

----------------------------------------------------------------------------
(* Time *)

DayOf(t) == t \div TicksPerDay
TimeOfDay(t) == t % TicksPerDay

Digit(n) == 48 + n
\* %d, %H, ...: zero-padded to two digits
Pad2(n) == <<Digit(n \div 10), Digit(n % 10)>>

\* strftime('%Y-%m-%d')
FormatDate(t) == Pad2(DayOf(t))

\* strftime('%Y-%m-%d %H:%M:%S (UTC+8)')
get_current_time_str(t) == FormatDate(t) \o <<32>> \o Pad2(TimeOfDay(t)) \o ZoneSuffix

\* the calendar date a time stamp or a file name starts with
DatePart(s) == SubSeq(s, 1, 2)

----------------------------------------------------------------------------
(* generate_report *)

\* which of the two search tool classes the installed client library has
ProtosShapes == SUBSET {"GoogleSearch", "GoogleSearchRetrieval"}

\* what model.generate_content can hand back
Responses ==
    {[parts |-> TRUE, text |-> t, prompt_feedback |-> "", candidates |-> <<"STOP">>] :
        t \in Texts}
    \cup {[parts |-> FALSE, text |-> "", prompt_feedback |-> "block_reason: SAFETY",
           candidates |-> <<>>],
          [parts |-> FALSE, text |-> "", prompt_feedback |-> "",
           candidates |-> <<"MALFORMED_FUNCTION_CALL">>],
          [parts |-> FALSE, text |-> "", prompt_feedback |-> "", candidates |-> <<>>]}

\* the outcomes of the generation call: an exception or a response
Outcomes ==
    {[raises |-> TRUE, e |-> e, response |-> CHOOSE r \in Responses : r.parts] :
        e \in ExcTexts}
    \cup {[raises |-> FALSE, e |-> "", response |-> r] : r \in Responses}

\* the search tool generate_report configures, lines 34-56
ProbeTools(protos) ==
    IF "GoogleSearch" \in protos THEN "google_search"
    ELSE IF "GoogleSearchRetrieval" \in protos THEN "google_search_retrieval"
    ELSE "ImportError"

\* the value of the try block, lines 72-80
ResponseText(r) ==
    IF ~r.parts
    THEN IF r.prompt_feedback # ""
         THEN <<"Error: Blocked by safety filters. Feedback: ", r.prompt_feedback>>
         ELSE <<"Error: Empty response. Finish reason: ",
                IF r.candidates # <<>> THEN r.candidates[1] ELSE "Unknown">>
    ELSE <<r.text>>

\* the value of the except block, line 91
ErrorText(e) ==
    <<"Error generating report: ", e, ". Check the Action logs for available models.">>

\* faulty variant: the exception of the generation call is not caught
generate_report_propagates(protos, construct_ok, outcome) ==
    IF ProbeTools(protos) = "ImportError"
    THEN [raised |-> "ImportError", value |-> EmptyStr, calls |-> 0,
          log |-> <<"CRITICAL ERROR: no search tool">>]
    ELSE IF ~construct_ok
    THEN [raised |-> "GenerativeModel", value |-> EmptyStr, calls |-> 0,
          log |-> <<ProbeTools(protos)>>]
    ELSE IF outcome.raises
    THEN [raised |-> "Exception", value |-> EmptyStr, calls |-> 1,
          log |-> <<ProbeTools(protos)>>]
    ELSE [raised |-> "none", value |-> ResponseText(outcome.response), calls |-> 1,
          log |-> <<ProbeTools(protos)>>]

\* generate_report: the exception it lets escape ("none" when it returns), its
\* return value, the generation calls it made and what it printed
generate_report(protos, construct_ok, outcome) ==
    IF ProbeTools(protos) = "ImportError"
    THEN [raised |-> "ImportError", value |-> EmptyStr, calls |-> 0,
          log |-> <<"CRITICAL ERROR: no search tool">>]
    ELSE IF ~construct_ok
    THEN [raised |-> "GenerativeModel", value |-> EmptyStr, calls |-> 0,
          log |-> <<ProbeTools(protos)>>]
    ELSE IF outcome.raises
    THEN [raised |-> "none", value |-> ErrorText(outcome.e), calls |-> 1,
          log |-> <<ProbeTools(protos), "Error generating content">>]
    ELSE [raised |-> "none", value |-> ResponseText(outcome.response), calls |-> 1,
          log |-> <<ProbeTools(protos)>>]

----------------------------------------------------------------------------
(* Rendering *)

\* markdown.markdown: the text as a paragraph
convert_to_html(markdown_text) == <<"<p>">> \o markdown_text \o <<"</p>">>

RECURSIVE LinksOf(_)
\* the loop of lines 107-110 over the sorted names
LinksOf(names) ==
    IF names = <<>> THEN <<>>
    ELSE LET filename == Head(names) IN
         (IF EndsWith(filename, HtmlSuffix)
          THEN <<[href |-> ReportsPrefix \o filename,
                  text |-> Replace(filename, HtmlSuffix, EmptyStr)]>>
          ELSE <<>>) \o LinksOf(Tail(names))

\* faulty variant: the directory is walked in the order it is enumerated in
WalkOrder_unsorted(listing) == listing

\* the order get_history_links walks the directory in, line 107
WalkOrder(listing) == SortedReverse(listing)

\* get_history_links: "" or the history section holding the links
get_history_links(dir_exists, listing) ==
    IF ~dir_exists THEN [block |-> FALSE, links |-> <<>>]
    ELSE LET links == LinksOf(WalkOrder(listing)) IN
         IF links = <<>> THEN [block |-> FALSE, links |-> <<>>]
         ELSE [block |-> TRUE, links |-> links]

\* create_html_page: report body, history section and footer in the template
create_html_page(report_html, t, dir_exists, listing) ==
    [body |-> report_html,
     history |-> get_history_links(dir_exists, listing),
     footer |-> get_current_time_str(t)]

----------------------------------------------------------------------------
(* Files *)

\* f"reports/{today_str}.html" inside reports/
ArchiveName(date_str) == date_str \o HtmlSuffix

\* faulty variant: the archive file is named by the full time stamp
ArchiveDate_stamp(t, page) == get_current_time_str(t)

\* the date main names the archive file by, lines 335-336
ArchiveDate(t, page) == FormatDate(t)

\* open(name, "w").write(content) in a directory
WriteFile(dir, name, content) ==
    [f \in DOMAIN dir \cup {name} |-> IF f = name THEN content ELSE dir[f]]

\* the names of a directory that end in ".html"
HtmlFiles(dir) == {f \in DOMAIN dir : EndsWith(f, HtmlSuffix)}

----------------------------------------------------------------------------
(* send_email *)

SmtpResults == {"connect_failed", "login_failed", "send_failed", "sent"}

\* Python's "not value" for an environment variable
Falsy(v) == v = None \/ v = EmptyStr

\* faulty variant: the email is skipped only when both values are missing
SkipEmail_and(se, sp) == Falsy(se) /\ Falsy(sp)

\* the guard of line 358
SkipEmail(se, sp) == Falsy(se) \/ Falsy(sp)

\* how far the session of lines 373-375 gets
SessionOf(result) ==
    CASE result = "connect_failed" -> "refused"
      [] result = "login_failed" -> "connected"
      [] result = "send_failed" -> "logged_in"
      [] OTHER -> "sent"

\* faulty variant: a failure of the session is not caught
EmailEscapes_uncaught(result) == "SMTPException"

\* what escapes the try block of lines 364-379
EmailEscapes(result) == "none"

\* send_email: the session it opened, the message the relay accepted, what it
\* printed and the exception it lets escape
send_email(html_content, date_str, se, sp, result) ==
    IF SkipEmail(se, sp)
    THEN [session |-> "none", sent |-> NoMsg, raised |-> "none",
          log |-> <<"Skipping email">>]
    ELSE [session |-> SessionOf(result),
          sent |-> IF result = "sent"
                   THEN [from |-> se, subject |-> date_str, body |-> html_content]
                   ELSE NoMsg,
          raised |-> IF result = "sent" THEN "none" ELSE EmailEscapes(result),
          log |-> <<IF result = "sent" THEN "Email sent successfully!"
                    ELSE "Error sending email">>]

----------------------------------------------------------------------------
(* The process: module level code, then main *)

\* faulty variant: the archive step is left out
MainOrder_no_archive == <<"main", "generate", "render", "write_index", "email", "done">>

\* faulty variant: the archive file is written before the page is rendered
MainOrder_archive_first ==
    <<"main", "generate", "archive", "render", "write_index", "email", "done">>

\* the order of the steps of main
MainOrder == <<"main", "generate", "render", "write_index", "archive", "email", "done">>

\* the step main takes after step p
After(p) == MainOrder[(CHOOSE i \in DOMAIN MainOrder : MainOrder[i] = p) + 1]

Ended == pc \in {"done", "crashed"}

Init ==
    /\ now = FirstTick
    /\ runs = 0
    /\ pc = "idle"
    /\ exc = "none"
    /\ report_md = TRUE
    /\ index_html = NoFile
    /\ reports_dir \in BOOLEAN
    /\ reports = IF reports_dir THEN [f \in {StrayFile} |-> NoPage] ELSE <<>>
    /\ report_markdown = EmptyStr
    /\ full_html = NoPage
    /\ today_str = EmptyStr
    /\ sender_email = None
    /\ sender_password = None
    /\ smtp = "none"
    /\ outbox = NoMsg
    /\ api_calls = 0
    /\ gen_raised = ""
    /\ console = <<>>
    /\ index_at_start = NoFile
    /\ reports_at_start = reports
    /\ dir_at_start = reports_dir
    /\ wrote_index = FALSE
    /\ wrote_archive = FALSE
    /\ last_archive = EmptyStr

\* the clock advances
Tick ==
    /\ now < MaxNow
    /\ now' = now + 1
    /\ UNCHANGED <<runs, pc, exc, report_md, index_html, reports_dir, reports,
                   report_markdown, full_html, today_str, sender_email,
                   sender_password, smtp, outbox, api_calls, gen_raised, console,
                   index_at_start, reports_at_start, dir_at_start, wrote_index,
                   wrote_archive, last_archive>>

\* the program is started; the prompt file may have been added or removed
StartProcess ==
    /\ pc = "idle" \/ Ended
    /\ runs < MaxRuns
    /\ runs' = runs + 1
    /\ pc' = "config"
    /\ exc' = "none"
    /\ report_md' \in BOOLEAN
    /\ report_markdown' = EmptyStr
    /\ full_html' = NoPage
    /\ today_str' = EmptyStr
    /\ sender_email' = None
    /\ sender_password' = None
    /\ smtp' = "none"
    /\ outbox' = NoMsg
    /\ api_calls' = 0
    /\ gen_raised' = ""
    /\ console' = <<>>
    /\ index_at_start' = index_html
    /\ reports_at_start' = reports
    /\ dir_at_start' = reports_dir
    /\ wrote_index' = FALSE
    /\ wrote_archive' = FALSE
    /\ UNCHANGED <<now, index_html, reports_dir, reports, last_archive>>

\* lines 9-13: the API key check
Configure ==
    /\ pc = "config"
    /\ \E API_KEY \in EnvValues :
          IF Falsy(API_KEY)
          THEN pc' = "crashed" /\ exc' = "ValueError"
          ELSE pc' = "main" /\ exc' = exc
    /\ UNCHANGED <<now, runs, report_md, index_html, reports_dir, reports,
                   report_markdown, full_html, today_str, sender_email,
                   sender_password, smtp, outbox, api_calls, gen_raised, console,
                   index_at_start, reports_at_start, dir_at_start, wrote_index,
                   wrote_archive, last_archive>>

\* faulty variant: main does not look for the prompt file
MainReadPrompt_unchecked ==
    /\ pc = "main"
    /\ console' = Append(console, "Prompt loaded")
    /\ pc' = After("main")
    /\ UNCHANGED <<now, runs, exc, report_md, index_html, reports_dir, reports,
                   report_markdown, full_html, today_str, sender_email,
                   sender_password, smtp, outbox, api_calls, gen_raised,
                   index_at_start, reports_at_start, dir_at_start, wrote_index,
                   wrote_archive, last_archive>>

\* main, lines 298-311: the prompt check
MainReadPrompt ==
    /\ pc = "main"
    /\ IF ~report_md
       THEN /\ console' = Append(console, "Error: report.md not found!")
            /\ pc' = "done"
       ELSE /\ console' = Append(console, "Prompt loaded")
            /\ pc' = After("main")
    /\ UNCHANGED <<now, runs, exc, report_md, index_html, reports_dir, reports,
                   report_markdown, full_html, today_str, sender_email,
                   sender_password, smtp, outbox, api_calls, gen_raised,
                   index_at_start, reports_at_start, dir_at_start, wrote_index,
                   wrote_archive, last_archive>>

\* main, lines 314-316: the call of generate_report
GenerateReport ==
    /\ pc = "generate"
    /\ \E protos \in ProtosShapes, construct_ok \in BOOLEAN, outcome \in Outcomes :
          LET r == generate_report(protos, construct_ok, outcome) IN
          /\ api_calls' = api_calls + r.calls
          /\ gen_raised' = IF r.calls > 0 /\ outcome.raises THEN outcome.e ELSE gen_raised
          /\ console' = console \o r.log
          /\ IF r.raised # "none"
             THEN pc' = "crashed" /\ exc' = r.raised /\ UNCHANGED report_markdown
             ELSE pc' = After("generate") /\ exc' = exc /\ report_markdown' = r.value
    /\ UNCHANGED <<now, runs, report_md, index_html, reports_dir, reports,
                   full_html, today_str, sender_email, sender_password, smtp,
                   outbox, index_at_start, reports_at_start, dir_at_start,
                   wrote_index, wrote_archive, last_archive>>

\* main, lines 318-322: convert_to_html and create_html_page
CreatePage ==
    /\ pc = "render"
    /\ \E listing \in Listings(DOMAIN reports) :
          full_html' = create_html_page(convert_to_html(report_markdown), now,
                                        reports_dir, listing)
    /\ pc' = After("render")
    /\ UNCHANGED <<now, runs, exc, report_md, index_html, reports_dir, reports,
                   report_markdown, today_str, sender_email, sender_password, smtp,
                   outbox, api_calls, gen_raised, console, index_at_start,
                   reports_at_start, dir_at_start, wrote_index, wrote_archive,
                   last_archive>>

\* faulty variant: index.html is created, never overwritten
WriteIndex_exclusive ==
    /\ pc = "write_index"
    /\ index_html' = IF index_html = NoFile THEN full_html ELSE index_html
    /\ wrote_index' = TRUE
    /\ console' = Append(console, "Success! index.html has been created.")
    /\ pc' = After("write_index")
    /\ UNCHANGED <<now, runs, exc, report_md, reports_dir, reports, report_markdown,
                   full_html, today_str, sender_email, sender_password, smtp, outbox,
                   api_calls, gen_raised, index_at_start, reports_at_start,
                   dir_at_start, wrote_archive, last_archive>>

\* main, lines 324-327: index.html is overwritten
WriteIndex ==
    /\ pc = "write_index"
    /\ index_html' = full_html
    /\ wrote_index' = TRUE
    /\ console' = Append(console, "Success! index.html has been created.")
    /\ pc' = After("write_index")
    /\ UNCHANGED <<now, runs, exc, report_md, reports_dir, reports,
                   report_markdown, full_html, today_str, sender_email,
                   sender_password, smtp, outbox, api_calls, gen_raised,
                   index_at_start, reports_at_start, dir_at_start, wrote_archive,
                   last_archive>>

\* main, lines 329-341: the archive directory and the file of the day
ArchiveReport ==
    /\ pc = "archive"
    /\ today_str' = ArchiveDate(now, full_html)
    /\ reports_dir' = TRUE
    /\ reports' = WriteFile(reports, ArchiveName(today_str'), full_html)
    /\ last_archive' = ArchiveName(today_str')
    /\ wrote_archive' = TRUE
    /\ console' = Append(console, "Archived")
    /\ pc' = After("archive")
    /\ UNCHANGED <<now, runs, exc, report_md, index_html, report_markdown,
                   full_html, sender_email, sender_password, smtp, outbox,
                   api_calls, gen_raised, index_at_start, reports_at_start,
                   dir_at_start, wrote_index>>

\* main, line 344: the call of send_email
SendEmail ==
    /\ pc = "email"
    /\ \E se \in EnvValues, sp \in EnvValues, result \in SmtpResults :
          LET r == send_email(full_html, today_str, se, sp, result) IN
          /\ sender_email' = se
          /\ sender_password' = sp
          /\ smtp' = r.session
          /\ outbox' = r.sent
          /\ console' = console \o r.log
          /\ IF r.raised # "none"
             THEN pc' = "crashed" /\ exc' = r.raised
             ELSE pc' = After("email") /\ exc' = exc
    /\ UNCHANGED <<now, runs, report_md, index_html, reports_dir, reports,
                   report_markdown, full_html, today_str, api_calls, gen_raised,
                   index_at_start, reports_at_start, dir_at_start, wrote_index,
                   wrote_archive, last_archive>>

Next ==
    \/ Tick
    \/ StartProcess
    \/ Configure
    \/ MainReadPrompt
    \/ GenerateReport
    \/ CreatePage
    \/ WriteIndex
    \/ ArchiveReport
    \/ SendEmail

Spec == Init /\ [][Next]_vars

----------------------------------------------------------------------------
(* Properties *)

\* the archive file this run wrote
ThisArchive == ArchiveName(today_str)

\* send_email has been called in this run
EmailCalled ==
    \E i \in DOMAIN console :
        console[i] \in {"Skipping email", "Email sent successfully!", "Error sending email"}

\* the run got past the API key check and the prompt check
PassedChecks == pc \notin {"idle", "config", "main"} /\ exc # "ValueError" /\ report_md

\* a piece occurs in a text
Contains(text, piece) == \E i \in DOMAIN text : text[i] = piece

\* the number a two-digit date stands for
DateNum(s) == (s[1] - 48) * 10 + (s[2] - 48)

\* a page links to the archive file of a date
LinksTo(page, date_str) ==
    \E i \in DOMAIN page.history.links : page.history.links[i].text = date_str

\* C1: a run whose generation call raised does not crash; generate_report
\* returned the error string embedding the exception text, and once the run
\* has ended, index.html and the archive file of the run date hold the page
\* whose body carries that text.
C1_GenerationFailurePublished ==
    gen_raised # "" =>
        /\ pc # "crashed" /\ exc = "none"
        /\ Contains(report_markdown, gen_raised)
        /\ Contains(report_markdown, "Error generating report: ")
        /\ pc = "done" =>
              /\ wrote_index /\ wrote_archive
              /\ Contains(index_html.body, gen_raised)
              /\ ThisArchive \in DOMAIN reports
              /\ Contains(reports[ThisArchive].body, gen_raised)

C1_Witness ==
    /\ pc = "done" /\ gen_raised # "" /\ wrote_archive
    /\ Contains(reports[ThisArchive].body, gen_raised)

\* C2: a run that finds no prompt file ends normally after one message and
\* does nothing else: no generation call, index.html and reports/ as they
\* were when it started, send_email not called.
C2_MissingPromptDoesNothing ==
    (~report_md /\ pc \notin {"config", "main"} /\ exc # "ValueError") =>
        /\ pc = "done" /\ exc = "none"
        /\ console = <<"Error: report.md not found!">>
        /\ api_calls = 0
        /\ index_html = index_at_start
        /\ reports_dir = dir_at_start /\ reports = reports_at_start
        /\ ~wrote_index /\ ~wrote_archive
        /\ ~EmailCalled /\ smtp = "none" /\ outbox = NoMsg

C2_Witness == pc = "done" /\ ~report_md /\ index_html # NoFile

\* C3: an SMTP session is opened only when sender address and credential are
\* both present; with either missing or empty, send_email opens none and sends
\* nothing, and the run ends normally with both files written.
C3_NoCredentialsNoSession ==
    /\ (smtp # "none" \/ outbox # NoMsg) =>
          ~Falsy(sender_email) /\ ~Falsy(sender_password)
    /\ (EmailCalled /\ (Falsy(sender_email) \/ Falsy(sender_password))) =>
          /\ smtp = "none" /\ outbox = NoMsg
          /\ pc = "done" /\ exc = "none"
          /\ index_html = full_html
          /\ ThisArchive \in DOMAIN reports /\ reports[ThisArchive] = full_html

C3_Witness ==
    /\ pc = "done" /\ EmailCalled
    /\ ~Falsy(sender_email) /\ Falsy(sender_password)
    /\ reports[ThisArchive] = full_html

\* C4: send_email is called only after index.html and the archive file were
\* written; whatever the session does, the run ends normally, and the step
\* leaves both files exactly as they were written.
C4_EmailAfterWritesAndCaught ==
    /\ [](EmailCalled =>
            /\ wrote_index /\ wrote_archive
            /\ pc = "done" /\ exc = "none"
            /\ index_html = full_html
            /\ ThisArchive \in DOMAIN reports /\ reports[ThisArchive] = full_html)
    /\ [][pc = "email" =>
            /\ wrote_index /\ wrote_archive
            /\ index_html' = index_html /\ reports' = reports
            /\ pc' # "crashed"]_vars

C4_Witness ==
    /\ pc = "done" /\ EmailCalled
    /\ smtp = "connected" /\ outbox = NoMsg
    /\ index_html = full_html /\ reports[ThisArchive] = full_html

\* C5: reports/ never holds two ".html" files of the same calendar date; a
\* run's archive write replaces the file of its date by its own page and
\* leaves every other file as it was.
C5_OneArchivePerDate ==
    /\ \A f, g \in HtmlFiles(reports) : DatePart(f) = DatePart(g) => f = g
    /\ wrote_archive =>
          /\ DOMAIN reports = DOMAIN reports_at_start \cup {ThisArchive}
          /\ reports[ThisArchive] = full_html
          /\ \A f \in DOMAIN reports_at_start :
                f # ThisArchive => reports[f] = reports_at_start[f]
    /\ ~wrote_archive => reports = reports_at_start

C5_Witness ==
    /\ wrote_archive
    /\ ThisArchive \in DOMAIN reports_at_start
    /\ reports_at_start[ThisArchive] # full_html
    /\ \E f \in HtmlFiles(reports) : f # ThisArchive

\* C6: the history section of a rendered page has exactly one link per
\* ".html" file of reports/, most recent date first, in whatever order the
\* directory was enumerated; without the directory or without such a file
\* there is no history section.
C6_HistoryLinksDescending ==
    full_html # NoPage =>
        LET h == full_html.history
            files == HtmlFiles(reports_at_start)
        IN  /\ Len(h.links) = Cardinality(files)
            /\ \A f \in files :
                  \E i \in DOMAIN h.links :
                      /\ h.links[i].href = ReportsPrefix \o f
                      /\ h.links[i].text \o HtmlSuffix = f
            /\ \A i, j \in DOMAIN h.links :
                  i < j => /\ StrLess(h.links[j].href, h.links[i].href)
                           /\ DateNum(h.links[j].text) < DateNum(h.links[i].text)
            /\ h.block <=> files # {}
            /\ ~dir_at_start => ~h.block

C6_Witness ==
    /\ full_html # NoPage
    /\ Len(full_html.history.links) >= 2
    /\ StrayFile \in DOMAIN reports_at_start

\* C7 as stated: once a run has ended normally and index.html exists,
\* index.html is the page that run rendered and wrote to its archive file.
C7_IndexIsLastStartedRun ==
    (pc = "done" /\ index_html # NoFile) =>
        /\ index_html = full_html
        /\ wrote_archive
        /\ reports[ThisArchive] = index_html

\* C7 amended: index.html holds the page of the last run that reached the
\* write of index.html: a run that wrote it left its own page there, a run
\* that did not left the file as it found it; and, except between the two
\* writes of a run, it equals the archive file the last writing run wrote.
C7_IndexIsLastWritingRun ==
    /\ wrote_index => index_html = full_html
    /\ ~wrote_index => index_html = index_at_start
    /\ (index_html # NoFile /\ (wrote_index => wrote_archive)) =>
          /\ last_archive \in DOMAIN reports
          /\ reports[last_archive] = index_html

C7_Witness ==
    /\ pc = "done" /\ ~report_md
    /\ index_html # NoFile /\ index_html # full_html
    /\ reports[last_archive] = index_html

\* C8: in a run that wrote its archive file, the date of the footer time
\* stamp of the page is the date the archive file is named by, and the date
\* of the subject of the email that was sent.
C8_FooterDateIsArchiveDate ==
    wrote_archive =>
        /\ DatePart(full_html.footer) = today_str
        /\ outbox # NoMsg => outbox.subject = DatePart(outbox.body.footer)

\* C9 as stated: a run that passed the key check and the prompt check and has
\* ended has written index.html and its archive file.
C9_PassedChecksReachWrites ==
    (Ended /\ PassedChecks) => wrote_index /\ wrote_archive

\* C9 amended: a run that passed both checks ends in one of two ways: it made
\* the generation call, and then, whatever the call did, it ended normally
\* with index.html and the archive file written; or generate_report raised
\* before the call (no search tool class, or the model could not be built),
\* and then it ended there with nothing written.
C9_GenerationCallReachesWrites ==
    (Ended /\ PassedChecks) =>
        IF api_calls > 0
        THEN pc = "done" /\ exc = "none" /\ wrote_index /\ wrote_archive
        ELSE /\ pc = "crashed" /\ exc \in {"ImportError", "GenerativeModel"}
             /\ ~wrote_index /\ ~wrote_archive
             /\ index_html = index_at_start /\ reports = reports_at_start

C9_Witness ==
    /\ pc = "done" /\ PassedChecks /\ api_calls > 0
    /\ Contains(report_markdown, "Error: Blocked by safety filters. Feedback: ")
    /\ wrote_index /\ wrote_archive

\* C10: the page a run wrote to index.html and to its archive file links to
\* the run's own date only if the archive file of that date was there when
\* the run started; a run that found no reports/ wrote a page without a
\* history section.
C10_HistoryPredatesOwnArchive ==
    (wrote_index /\ wrote_archive) =>
        /\ LinksTo(index_html, today_str) => ThisArchive \in DOMAIN reports_at_start
        /\ LinksTo(reports[ThisArchive], today_str) =>
              ThisArchive \in DOMAIN reports_at_start
        /\ ~dir_at_start =>
              ~index_html.history.block /\ ~reports[ThisArchive].history.block

C10_Witness ==
    /\ wrote_index /\ wrote_archive
    /\ ThisArchive \notin DOMAIN reports_at_start
    /\ reports[ThisArchive].history.block
    /\ ~LinksTo(reports[ThisArchive], today_str)

====
